---- MODULE Spec2Model ----
(***************************************************************************)
(* Durable log manager (log_manager.go) and key registry (key_registry.go) *)
(* of the badger value directory.                                          *)
(*                                                                         *)
(* Two specifications share this module:                                   *)
(*   SpecReg - the key registry: OpenKeyRegistry, RewriteRegistry,         *)
(*             getDataKey, Close, over the files KEYREGISTRY and           *)
(*             REWRITE-KEYREGISTRY;                                        *)
(*   Spec    - the log manager: openLogManager (with the replayer),        *)
(*             write, Read, crash, over the .log and .vlog files.          *)
(***************************************************************************)
EXTENDS Integers, Sequences, FiniteSets, TLC

(***************************************************************************)
(* Bounds of the model.                                                    *)
(***************************************************************************)
\* number of calls made on the key registry (OpenKeyRegistry, RewriteRegistry,
\* getDataKey), of clock advances and of failures inside a call
MaxCalls == 6
\* number of calls made on the log manager (openLogManager, write, Read)
MaxOps == 3
\* the largest commit timestamp of a written batch
MaxTs == 2
\* the largest number of records of a log file read by an iterator on its own
MaxStream == 3
\* opt.ValueLogFileSize, in bytes: larger than any file written here
ValueLogFileSize == 128
\* db.opt.ValueThreshold: values up to this size go to the WAL
ValueThreshold == 2

(***************************************************************************)
(* Program constants.                                                      *)
(***************************************************************************)
\* key_registry.go:25, in days (getDataKey compares diff.Hours()/24 with it)
RotationPeriod == 10
\* key_registry.go:29, the sanity text as one 3-bit block
sanityText == 5
\* the size of the bootstrap header of a log file (log_manager.go:276)
vlogHeaderSize == 20
\* crc32.Size (log_manager.go:431)
crcSize == 4

\* storage keys: 0 is the empty key (len(storageKey) == 0)
StorageKeys == {0, 1, 2}
\* values of rand.Read for the key material, and of y.GenereateIV
Materials == {0, 1}
IVs == {0, 1}
\* callers of getDataKey
Callers == {1, 2}

NoFile == [none |-> TRUE]
NoKr == [none |-> TRUE]
NoKey == [nil |-> TRUE]

\* the clock at Init: the unix epoch (lastCreated = 0) is long past
StartNow == 2 * RotationPeriod

VARIABLES
  \* ---- key registry ----
  regFile,     \* content of KEYREGISTRY, or NoFile
  tmpFile,     \* content of REWRITE-KEYREGISTRY, or NoFile
  orphanFile,  \* content of the unlinked file kr.fp still writes to, or NoFile
  kr,          \* the KeyRegistry object, or NoKr
  now,         \* time.Now(), in days
  calls,       \* calls, clock advances and failures so far
  openRes,     \* result of the last OpenKeyRegistry
  openArg,     \* arguments of the OpenKeyRegistry in progress
  recsRead,    \* data-key records the last buildKeyRegistry read
  rpc,         \* position inside RewriteRegistry
  rwArg,       \* arguments of the RewriteRegistry in progress
  rwTodo,      \* map slots RewriteRegistry still has to range over
  rwOrig,      \* the registry and key RewriteRegistry was last called with
  fileKey,     \* the storage key KEYREGISTRY was written under
  newest,      \* the data key getDataKey created last
  gpc,         \* position of each caller inside getDataKey
  gdk,         \* the data key each caller is creating
  gret,        \* what getDataKey last returned to each caller
  gstart,      \* nextKeyID as the caller's getDataKey found it
  \* ---- log manager ----
  walDisk,     \* the .log files of the value directory: id -> file
  vlogDisk,    \* the .vlog files of the value directory: id -> file
  lpc,         \* position of the process: closed, inside openLogManager, ready
  opt,         \* db.opt: ReadOnly, ValueLogLoadingMode, encryption
  oarg,        \* walhead and vhead of the openLogManager in progress
  manager,     \* the logManager object
  replayer,    \* logReplayer: walIDs and vlogIDs
  replayed,    \* the calls the replay callback received, in order
  openResult,  \* how the last openLogManager ended
  wpc,         \* position inside write()
  wr,          \* write() in progress: reqs with Ptrs, walBuf, vlogBuf
  writeResult, \* how the last write() ended
  rdpc,        \* position inside Read()
  rd,          \* Read() in progress: vp, lf, err, cb
  readResult,  \* the last Read(): its pointer and what it returned
  rlocks,      \* shared locks held on each vlog file: fid -> count
  unlockCbs,   \* unlock callbacks returned and not yet invoked: fid -> count
  durable,     \* entries and pointers of the batches flushed to both logs
  session,     \* the WAL and vlog ids the last writing manager appended to
  nextTs,      \* the next commit timestamp
  maxWalEver,  \* the largest WAL id ever created
  diskAtOpen,  \* the files as the openLogManager in progress found them
  ops,         \* openLogManager, write and Read calls so far
  \* ---- a log iterator on its own ----
  itFile,      \* the log file the iterator reads
  iterator,    \* the logIterator, or NoArg
  itBatches    \* what the calls of iterateEntries returned, in order

regVars == <<regFile, tmpFile, orphanFile, kr, now, calls, openRes,
             openArg, recsRead, rpc, rwArg, rwTodo, rwOrig, fileKey, newest,
             gpc, gdk, gret, gstart>>

fsVars == <<regFile, tmpFile, orphanFile>>
clockVars == <<now, calls>>
openVars == <<openRes, openArg, recsRead>>
rwVars == <<rpc, rwArg, rwTodo>>
gVars == <<gpc, gdk, gret, gstart>>

logVars == <<walDisk, vlogDisk, lpc, opt, oarg, manager, replayer, replayed,
            openResult, wpc, wr, writeResult, rdpc, rd, readResult, rlocks,
            unlockCbs, durable, session, nextTs, maxWalEver, diskAtOpen, ops>>

diskVars == <<walDisk, vlogDisk>>
openArgVars == <<opt, oarg, replayer, diskAtOpen>>
openOutVars == <<replayed, openResult>>
openLogVars == <<openArgVars, openOutVars>>
writeVars == <<wpc, wr, writeResult>>
readVars == <<rdpc, rd, readResult, rlocks, unlockCbs>>
ghostVars == <<durable, session, nextTs, maxWalEver>>

iterVars == <<itFile, iterator, itBatches>>

vars == <<regVars, logVars, iterVars>>

(***************************************************************************)
(* Crypto primitives                                                       *)
(***************************************************************************)
RECURSIVE BitXor(_, _)
BitXor(a, b) ==
  IF a = 0 THEN b
  ELSE IF b = 0 THEN a
  ELSE (((a % 2) + (b % 2)) % 2) + 2 * BitXor(a \div 2, b \div 2)

\* keystream block of the cipher keyed by key with counter block iv:
\* non-zero, and different for different keys
KeyStream(key, iv) == 2 * key + iv

\* y.XORBlock: encryption and decryption are the same operation
XORBlock(key, iv, data) == BitXor(data, KeyStream(key, iv))

(***************************************************************************)
(* Key registry                                                            *)
(***************************************************************************)
\* pb.DataKey
DataKey(id, data, createdAt, iv) ==
  [KeyID |-> id, Data |-> data, CreatedAt |-> createdAt, IV |-> iv]

\* a map with key k set to v (Go: m[k] = v)
MapPut(m, k, v) == [x \in (DOMAIN m) \cup {k} |-> IF x = k THEN v ELSE m[x]]

EmptyMap == [x \in {} |-> NoKey]

newKeyRegistry(storageKey) ==
  [dataKeys |-> EmptyMap, lastCreated |-> 0, nextKeyID |-> 0,
   storageKey |-> storageKey, fp |-> "nil", readOnly |-> FALSE]

\* the record storeDataKey marshals for k: Data encrypted when a key is set
storeDataKeyRecord(storageKey, k) ==
  IF storageKey # 0
    THEN [k EXCEPT !.Data = XORBlock(storageKey, k.IV, k.Data)]
    ELSE k

\* one round of the record loop of buildKeyRegistry
buildKeyRegistryStep(reg, storageKey, rec) ==
  LET dataKey == IF storageKey # 0
                   THEN [rec EXCEPT !.Data = XORBlock(storageKey, rec.IV, rec.Data)]
                   ELSE rec
      next == IF dataKey.KeyID > reg.nextKeyID THEN dataKey.KeyID ELSE reg.nextKeyID
      last == IF dataKey.CreatedAt > reg.lastCreated
                THEN dataKey.CreatedAt ELSE reg.lastCreated
  IN [reg EXCEPT !.nextKeyID = next, !.lastCreated = last,
                 !.dataKeys = MapPut(reg.dataKeys, next, dataKey)]

RECURSIVE buildKeyRegistryLoop(_, _, _)
buildKeyRegistryLoop(reg, storageKey, recs) ==
  IF recs = <<>> THEN reg
  ELSE buildKeyRegistryLoop(buildKeyRegistryStep(reg, storageKey, Head(recs)),
                            storageKey, Tail(recs))

\* a sanity check that accepts every storage key
sanityUnchecked(file, storageKey) == TRUE

\* the sanity check of buildKeyRegistry: TRUE when the storage key fits
sanityCheck(file, storageKey) ==
  LET eSanityText == IF storageKey # 0
                       THEN XORBlock(storageKey, file.iv, file.sanity)
                       ELSE file.sanity
  IN eSanityText = sanityText

\* buildKeyRegistry: [err, kr, read]
buildKeyRegistry(file, storageKey, readOnly) ==
  IF ~file.hdr
    THEN [err |-> "EOF", kr |-> NoKr, read |-> 0]
  ELSE IF ~sanityCheck(file, storageKey)
    THEN [err |-> "ErrEncryptionKeyMismatch", kr |-> NoKr, read |-> 0]
    ELSE [err |-> "nil",
          kr |-> [buildKeyRegistryLoop(newKeyRegistry(storageKey), storageKey,
                                       file.recs)
                    EXCEPT !.fp = "file", !.readOnly = readOnly],
          read |-> Len(file.recs)]

\* the file kr.fp writes to
FpFile ==
  IF kr.fp = "file" THEN regFile
  ELSE IF kr.fp = "orphan" THEN orphanFile
  ELSE NoFile

\* y.OpenTruncFile: an empty file
EmptyFile == [hdr |-> FALSE, iv |-> 0, sanity |-> 0, recs |-> <<>>]

NoArg == [none |-> TRUE]

RegIdle == rpc = "idle" /\ \A c \in Callers : gpc[c] = "idle"

InitReg ==
  /\ regFile = NoFile
  /\ tmpFile = NoFile
  /\ orphanFile = NoFile
  /\ kr = NoKr
  /\ now = StartNow
  /\ calls = 0
  /\ openRes = "none"
  /\ openArg = NoArg
  /\ recsRead = 0
  /\ rpc = "idle"
  /\ rwArg = NoArg
  /\ rwTodo = {}
  /\ rwOrig = NoArg
  /\ fileKey = 0
  /\ newest = NoKey
  /\ gpc = [c \in Callers |-> "idle"]
  /\ gdk = [c \in Callers |-> NoKey]
  /\ gret = [c \in Callers |-> [kind |-> "none"]]
  /\ gstart = [c \in Callers |-> 0]

\* time passes
Tick ==
  /\ RegIdle
  /\ calls < MaxCalls
  /\ \E d \in {1, RotationPeriod} : now' = now + d
  /\ calls' = calls + 1
  /\ UNCHANGED <<fsVars, kr, openVars, rwVars, rwOrig, fileKey, newest, gVars>>
  /\ UNCHANGED <<logVars, iterVars>>

\* OpenKeyRegistry, up to its return or to its call of RewriteRegistry
OpenKeyRegistry(readOnly, storageKey) ==
  /\ kr = NoKr
  /\ RegIdle
  /\ openArg = NoArg
  /\ calls < MaxCalls
  /\ calls' = calls + 1
  /\ IF regFile # NoFile
       THEN LET b == buildKeyRegistry(regFile, storageKey, readOnly)
            IN /\ kr' = b.kr
               /\ openRes' = b.err
               /\ recsRead' = b.read
               /\ UNCHANGED <<openArg, rwVars, rwOrig>>
       ELSE IF readOnly
         THEN /\ kr' = [newKeyRegistry(storageKey) EXCEPT !.readOnly = TRUE]
              /\ openRes' = "nil"
              /\ recsRead' = 0
              /\ UNCHANGED <<openArg, rwVars, rwOrig>>
         ELSE /\ openArg' = [readOnly |-> readOnly, storageKey |-> storageKey]
              /\ rpc' = "rw_open"
              /\ rwArg' = [caller |-> "open", storageKey |-> storageKey]
              /\ rwTodo' = {}
              /\ rwOrig' = [reg |-> newKeyRegistry(storageKey), key |-> storageKey]
              /\ UNCHANGED <<kr, openRes, recsRead>>
  /\ UNCHANGED <<fsVars, now, fileKey, newest, gVars>>
  /\ UNCHANGED <<logVars, iterVars>>

\* OpenKeyRegistry after its RewriteRegistry returned nil: reopen and build
OpenKeyRegistryFinish ==
  /\ rpc = "rw_done"
  /\ rwArg.caller = "open"
  /\ LET b == buildKeyRegistry(regFile, openArg.storageKey, openArg.readOnly)
     IN /\ kr' = b.kr
        /\ openRes' = b.err
        /\ recsRead' = b.read
  /\ rpc' = "idle"
  /\ openArg' = NoArg
  /\ rwArg' = NoArg
  /\ UNCHANGED <<fsVars, clockVars, rwTodo, rwOrig, fileKey, newest, gVars>>
  /\ UNCHANGED <<logVars, iterVars>>

\* RewriteRegistry(dir, kr, storageKey) called on the open registry
RewriteRegistry(storageKey) ==
  /\ kr # NoKr
  /\ RegIdle
  /\ calls < MaxCalls
  /\ calls' = calls + 1
  /\ rpc' = "rw_open"
  /\ rwArg' = [caller |-> "ext", storageKey |-> storageKey]
  /\ rwTodo' = DOMAIN kr.dataKeys
  /\ rwOrig' = [reg |-> kr, key |-> storageKey]
  /\ UNCHANGED <<fsVars, kr, now, openVars, fileKey, newest, gVars>>
  /\ UNCHANGED <<logVars, iterVars>>

\* RewriteRegistry: y.OpenTruncFile(reWritePath)
RewriteOpenTrunc ==
  /\ rpc = "rw_open"
  /\ tmpFile' = EmptyFile
  /\ rpc' = "rw_hdr"
  /\ UNCHANGED <<regFile, orphanFile, kr, clockVars, openVars, rwArg, rwTodo,
                 rwOrig, fileKey, newest, gVars>>
  /\ UNCHANGED <<logVars, iterVars>>

\* RewriteRegistry: generate the IV, write it and the sanity text
RewriteHeader ==
  /\ rpc = "rw_hdr"
  /\ \E iv \in IVs :
       LET eSanity == IF rwArg.storageKey # 0
                        THEN XORBlock(rwArg.storageKey, iv, sanityText)
                        ELSE sanityText
       IN tmpFile' = [tmpFile EXCEPT !.hdr = TRUE, !.iv = iv, !.sanity = eSanity]
  /\ rpc' = "rw_keys"
  /\ UNCHANGED <<regFile, orphanFile, kr, clockVars, openVars, rwArg, rwTodo,
                 rwOrig, fileKey, newest, gVars>>
  /\ UNCHANGED <<logVars, iterVars>>

\* RewriteRegistry: one round of "for _, k := range reg.dataKeys", in the
\* order the map yields; storeDataKey encrypts k.Data in place
RewriteStoreKey ==
  /\ rpc = "rw_keys"
  /\ \E slot \in rwTodo :
       LET k == kr.dataKeys[slot]
           rec == storeDataKeyRecord(rwArg.storageKey, k)
       IN /\ tmpFile' = [tmpFile EXCEPT !.recs = Append(@, rec)]
          /\ kr' = [kr EXCEPT !.dataKeys[slot] = rec]
          /\ rwTodo' = rwTodo \ {slot}
  /\ UNCHANGED <<regFile, orphanFile, clockVars, openVars, rpc, rwArg, rwOrig,
                 fileKey, newest, gVars>>
  /\ UNCHANGED <<logVars, iterVars>>

\* RewriteRegistry renames although records are still to be written
renameAnytime(todo) == TRUE

\* RewriteRegistry reaches FileSync, Close and Rename after its loop over
\* reg.dataKeys has written every key
renameReached(todo) == todo = {}

\* RewriteRegistry: fsync, close, rename over KEYREGISTRY, sync the directory
RewriteRename ==
  /\ rpc = "rw_keys"
  /\ renameReached(rwTodo)
  /\ regFile' = tmpFile
  /\ tmpFile' = NoFile
  /\ fileKey' = rwArg.storageKey
  /\ IF kr # NoKr /\ kr.fp = "file"
       THEN /\ orphanFile' = regFile
            /\ kr' = [kr EXCEPT !.fp = "orphan"]
       ELSE UNCHANGED <<orphanFile, kr>>
  /\ IF rwArg.caller = "open"
       THEN rpc' = "rw_done" /\ UNCHANGED rwArg
       ELSE rpc' = "idle" /\ rwArg' = NoArg
  /\ UNCHANGED <<clockVars, openVars, rwTodo, rwOrig, newest, gVars>>
  /\ UNCHANGED <<logVars, iterVars>>

\* RewriteRegistry returns an error from one of its steps (OpenTruncFile,
\* GenereateIV, Write, storeDataKey, FileSync, Close, Rename): what it wrote to
\* REWRITE-KEYREGISTRY stays, KEYREGISTRY is as it was
RewriteFail ==
  /\ rpc \in {"rw_open", "rw_hdr", "rw_keys"}
  /\ calls < MaxCalls
  /\ calls' = calls + 1
  /\ rpc' = "idle"
  /\ rwArg' = NoArg
  /\ rwTodo' = {}
  /\ rwOrig' = NoArg
  /\ IF rwArg.caller = "open"
       THEN openRes' = "err" /\ openArg' = NoArg /\ recsRead' = 0
       ELSE UNCHANGED openVars
  /\ UNCHANGED <<fsVars, kr, now, fileKey, newest, gVars>>
  /\ UNCHANGED <<logVars, iterVars>>

\* the process stops inside RewriteRegistry or getDataKey; the files stay as
\* they are
CrashRegistry ==
  /\ ~RegIdle
  /\ calls < MaxCalls
  /\ calls' = calls + 1
  /\ kr' = NoKr
  /\ orphanFile' = NoFile
  /\ rpc' = "idle"
  /\ rwArg' = NoArg
  /\ rwTodo' = {}
  /\ rwOrig' = IF rpc # "idle" THEN NoArg ELSE rwOrig
  /\ openRes' = "none"
  /\ openArg' = NoArg
  /\ recsRead' = 0
  /\ gpc' = [c \in Callers |-> "idle"]
  /\ gdk' = [c \in Callers |-> NoKey]
  /\ gret' = [c \in Callers |-> [kind |-> "none"]]
  /\ gstart' = [c \in Callers |-> 0]
  /\ UNCHANGED <<regFile, tmpFile, now, fileKey, newest>>
  /\ UNCHANGED <<logVars, iterVars>>

\* KeyRegistry.Close, or the end of the process
CloseRegistry ==
  /\ kr # NoKr
  /\ RegIdle
  /\ kr' = NoKr
  /\ orphanFile' = NoFile
  /\ gret' = [c \in Callers |-> [kind |-> "none"]]
  /\ gstart' = [c \in Callers |-> 0]
  /\ UNCHANGED <<regFile, tmpFile, clockVars, openVars, rwVars, rwOrig, fileKey,
                 newest, gpc, gdk>>
  /\ UNCHANGED <<logVars, iterVars>>

\* Go map lookup: the zero value (nil) for an absent key
MapGet(m, k) == IF k \in DOMAIN m THEN m[k] ELSE NoKey

\* getDataKey: the rotation test "diff.Hours()/24 < RotationPeriod"
withinRotationPeriod(lastCreated) == now - lastCreated < RotationPeriod

\* getDataKey up to its first return or to the decision to rotate
getDataKeyCheck(c) ==
  /\ gpc[c] = "idle"
  /\ kr # NoKr
  /\ rpc = "idle"
  /\ calls < MaxCalls
  /\ calls' = calls + 1
  /\ IF kr.storageKey = 0
       THEN /\ gret' = [gret EXCEPT ![c] = [kind |-> "nil"]]
            /\ UNCHANGED <<gpc, gstart>>
       ELSE IF withinRotationPeriod(kr.lastCreated)
         THEN /\ gret' = [gret EXCEPT ![c] =
                            [kind |-> "existing",
                             key |-> MapGet(kr.dataKeys, kr.nextKeyID)]]
              /\ UNCHANGED <<gpc, gstart>>
         ELSE /\ gpc' = [gpc EXCEPT ![c] = "incr"]
              /\ gstart' = [gstart EXCEPT ![c] = kr.nextKeyID]
              /\ gret' = [gret EXCEPT ![c] = [kind |-> "none"]]
  /\ UNCHANGED <<fsVars, kr, now, openVars, rwVars, rwOrig, fileKey, newest, gdk>>
  /\ UNCHANGED <<logVars, iterVars>>

\* getDataKey: kr.nextKeyID++, outside every lock: the value incremented is
\* the one in memory now, or the one this caller saw before another caller's
\* increment (a lost update)
getDataKeyIncr(c) ==
  /\ gpc[c] = "incr"
  /\ \E loaded \in {kr.nextKeyID, gstart[c]} :
       kr' = [kr EXCEPT !.nextKeyID = loaded + 1]
  /\ gpc' = [gpc EXCEPT ![c] = "make"]
  /\ UNCHANGED <<fsVars, clockVars, openVars, rwVars, rwOrig, fileKey, newest,
                 gdk, gret, gstart>>
  /\ UNCHANGED <<logVars, iterVars>>

\* getDataKey: random material and IV, and the new pb.DataKey
getDataKeyMake(c) ==
  /\ gpc[c] = "make"
  /\ \E k \in Materials, iv \in IVs :
       gdk' = [gdk EXCEPT ![c] =
                 [dk |-> DataKey(kr.nextKeyID, k, now, iv), k |-> k]]
  /\ gpc' = [gpc EXCEPT ![c] = "store"]
  /\ UNCHANGED <<fsVars, kr, clockVars, openVars, rwVars, rwOrig, fileKey,
                 newest, gret, gstart>>
  /\ UNCHANGED <<logVars, iterVars>>

\* whether a write through kr.fp can succeed
fpWritable == kr.fp # "nil" /\ ~kr.readOnly

\* the file kr.fp refers to, with rec appended
fpAppend(rec) ==
  IF kr.fp = "file"
    THEN /\ regFile' = [regFile EXCEPT !.recs = Append(@, rec)]
         /\ UNCHANGED orphanFile
    ELSE /\ orphanFile' = [orphanFile EXCEPT !.recs = Append(@, rec)]
         /\ UNCHANGED regFile

\* getDataKey: storeDataKey(kr.fp, kr.storageKey, dk, true) returns nil;
\* dk.Data is left encrypted
getDataKeyStore(c) ==
  /\ gpc[c] = "store"
  /\ fpWritable
  /\ LET rec == storeDataKeyRecord(kr.storageKey, gdk[c].dk)
     IN /\ fpAppend(rec)
        /\ gdk' = [gdk EXCEPT ![c].dk = rec]
  /\ gpc' = [gpc EXCEPT ![c] = "record"]
  /\ rwOrig' = IF kr.fp = "file" THEN NoArg ELSE rwOrig
  /\ UNCHANGED <<tmpFile, kr, clockVars, openVars, rwVars, fileKey, newest,
                 gret, gstart>>
  /\ UNCHANGED <<logVars, iterVars>>

\* getDataKey: storeDataKey returns an error (a nil or read-only fp, or an
\* I/O error); getDataKey returns it
getDataKeyStoreFail(c) ==
  /\ gpc[c] = "store"
  /\ gpc' = [gpc EXCEPT ![c] = "idle"]
  /\ gret' = [gret EXCEPT ![c] = [kind |-> "err"]]
  /\ gdk' = [gdk EXCEPT ![c] = NoKey]
  /\ UNCHANGED <<fsVars, kr, clockVars, openVars, rwVars, rwOrig, fileKey,
                 newest, gstart>>
  /\ UNCHANGED <<logVars, iterVars>>

\* getDataKey: dk.Data = k, then record the key under the lock and return it
getDataKeyRecord(c) ==
  /\ gpc[c] = "record"
  /\ LET dk == [gdk[c].dk EXCEPT !.Data = gdk[c].k]
     IN /\ kr' = [kr EXCEPT !.lastCreated = dk.CreatedAt,
                            !.dataKeys = MapPut(@, kr.nextKeyID, dk)]
        /\ gret' = [gret EXCEPT ![c] = [kind |-> "created", key |-> dk]]
        /\ newest' = dk
  /\ gpc' = [gpc EXCEPT ![c] = "idle"]
  /\ gdk' = [gdk EXCEPT ![c] = NoKey]
  /\ UNCHANGED <<fsVars, clockVars, openVars, rwVars, rwOrig, fileKey, gstart>>
  /\ UNCHANGED <<logVars, iterVars>>

\* the callers of the sequential specification
SeqCallers == {1}

NextReg ==
  \/ Tick
  \/ \E readOnly \in BOOLEAN, key \in StorageKeys : OpenKeyRegistry(readOnly, key)
  \/ OpenKeyRegistryFinish
  \/ \E key \in StorageKeys : RewriteRegistry(key)
  \/ RewriteOpenTrunc
  \/ RewriteHeader
  \/ RewriteStoreKey
  \/ RewriteRename
  \/ RewriteFail
  \/ CrashRegistry
  \/ CloseRegistry
  \/ \E c \in SeqCallers : getDataKeyCheck(c)
  \/ \E c \in SeqCallers : getDataKeyIncr(c)
  \/ \E c \in SeqCallers : getDataKeyMake(c)
  \/ \E c \in SeqCallers : getDataKeyStore(c)
  \/ \E c \in SeqCallers : getDataKeyStoreFail(c)
  \/ \E c \in SeqCallers : getDataKeyRecord(c)


(***************************************************************************)
(* Log entries and log files                                               *)
(***************************************************************************)
\* an entry of a transaction: bitTxn set, the commit timestamp ts in the key
\* suffix (y.ParseTs), a value of vlen bytes
TxnEntry(key, ts, vlen, skip) ==
  [meta |-> "txn", key |-> key, ts |-> ts, vlen |-> vlen, skipVlog |-> skip]

\* an end-marker: bitFinTxn set, the value is the commit timestamp in ASCII
\* decimal (strconv.ParseUint), here the number ts itself
FinEntry(ts) ==
  [meta |-> "fin", key |-> 0, ts |-> ts, vlen |-> 1, skipVlog |-> FALSE]

\* e.hlen, the encoded header length
hlen(e) == 3
\* len(e.Key): one key byte and the 8-byte timestamp
klen(e) == 9
\* the length of the framed entry: hlen + len(Key) + len(Value) + crc32.Size
entryLen(e) == hlen(e) + klen(e) + e.vlen + crcSize

RECURSIVE bufLen(_)
bufLen(recs) == IF recs = <<>> THEN 0 ELSE entryLen(Head(recs)) + bufLen(Tail(recs))

\* a log file on disk: boot says the 20-byte bootstrap header is there
LogFile(recs) == [boot |-> TRUE, recs |-> recs]

\* the physical size of a log file
fileSize(f) == IF f.boot THEN vlogHeaderSize + bufLen(f.recs) ELSE 0

\* offset of the i-th record of a file
offsetOf(recs, i) == vlogHeaderSize + bufLen(SubSeq(recs, 1, i - 1))

emptyPtr == [Fid |-> 0, Offset |-> 0, Len |-> 0]

\* safeRead.Entry at offset off of file f: the entry framed there, io.EOF at
\* or past the end, errTruncate where no entry starts
decodeEntry(f, off) ==
  IF off >= fileSize(f) THEN [err |-> "EOF"]
  ELSE IF \E i \in 1..Len(f.recs) : offsetOf(f.recs, i) = off
    THEN LET i == CHOOSE i \in 1..Len(f.recs) : offsetOf(f.recs, i) = off
         IN [err |-> "nil", e |-> f.recs[i], offset |-> off]
    ELSE [err |-> "errTruncate"]

\* newLogIterator: recordOffset is the start offset, validOffset the zero value
newLogIterator(fam, fid, offset) ==
  [fam |-> fam, fid |-> fid, recordOffset |-> offset, validOffset |-> 0]

\* the loop of iterateEntries over file f: [entries, ts, err, it]
RECURSIVE iterateLoop(_, _, _, _)
iterateLoop(f, it, commitTs, entries) ==
  LET d == decodeEntry(f, it.recordOffset)
  IN IF d.err # "nil"
       THEN [entries |-> <<>>, ts |-> 0, err |-> d.err, it |-> it]
       ELSE LET e == d.e
                it2 == [it EXCEPT !.recordOffset = @ + entryLen(e)]
            IN IF e.meta = "txn"
                 THEN LET c == IF commitTs = 0 THEN e.ts ELSE commitTs
                      IN IF c # e.ts
                           THEN [entries |-> <<>>, ts |-> 0,
                                 err |-> "errTruncate", it |-> it2]
                           ELSE iterateLoop(f, it2, c,
                                  Append(entries, [e |-> e, offset |-> d.offset]))
               ELSE IF e.meta = "fin"
                 THEN IF commitTs # e.ts
                        THEN [entries |-> <<>>, ts |-> 0,
                              err |-> "errTruncate", it |-> it2]
                        ELSE [entries |-> entries, ts |-> commitTs, err |-> "nil",
                              it |-> [it2 EXCEPT !.validOffset = it2.recordOffset]]
               ELSE iterateLoop(f, it2, commitTs, entries)

\* logIterator.iterateEntries on the file the iterator was made for
iterateEntries(it, wd, vd) ==
  iterateLoop(IF it.fam = "wal" THEN wd[it.fid] ELSE vd[it.fid], it, 0, <<>>)


(***************************************************************************)
(* The replayer                                                            *)
(***************************************************************************)
\* the callback arguments of one batch pair: the WAL entries with an empty
\* pointer, then the vlog entries with the pointer built from vlogFile.fid
replayBatch(walEntries, vlogEntries, vlogFid) ==
  [i \in 1..Len(walEntries) |-> [e |-> walEntries[i].e, vp |-> emptyPtr]]
  \o
  [i \in 1..Len(vlogEntries) |->
     [e |-> vlogEntries[i].e,
      vp |-> [Fid |-> vlogFid, Offset |-> vlogEntries[i].offset,
              Len |-> entryLen(vlogEntries[i].e)]]]

\* isTruncateNeeded: the physical size differs from validOffset
isTruncateNeeded(validOffset, f) == fileSize(f) # validOffset

\* what one call of iterateEntries returned, with the family of the iterator
\* it was called on
batchOf(r) == [entries |-> r.entries, ts |-> r.ts, err |-> r.err, fam |-> r.it.fam]

\* the for loop of logReplayer.replay; indexes are 1-based here
RECURSIVE replayLoop(_, _)
replayLoop(st, env) ==
  LET done(res) == [res |-> res, out |-> st.out, st |-> st]
  IN
  IF st.wB.err = "errTruncate" \/ st.vB.err = "errTruncate"
    THEN done("panicTruncate")
  ELSE IF st.wB.err = "EOF"
    THEN \* walFile is the file opened before the loop: the file opened on
         \* advance is a new variable of the inner block
         IF st.walClosed THEN done("err")
         ELSE IF isTruncateNeeded(st.wIt.validOffset, env.wd[st.walFid])
           THEN done("panicTruncate")
         ELSE IF Len(env.walIDs) < st.wi - 1 THEN done("nil")
         ELSE IF st.wi + 1 > Len(env.walIDs) THEN done("panicIndex")
         ELSE LET fid == env.walIDs[st.wi + 1]
              IN IF fileSize(env.wd[fid]) < vlogHeaderSize
                   THEN done("panicTruncate")
                   ELSE LET it == newLogIterator("wal", fid, vlogHeaderSize)
                            r == iterateEntries(it, env.wd, env.vd)
                        IN replayLoop([st EXCEPT !.wi = @ + 1,
                                                 !.walClosed = TRUE,
                                                 !.wIt = r.it,
                                                 !.wB = batchOf(r)], env)
  ELSE IF st.vB.err = "EOF"
    THEN IF isTruncateNeeded(st.vIt.validOffset, env.vd[st.vlogFid])
           THEN done("panicTruncate")
         ELSE IF Len(env.vlogIDs) < st.vi - 1 THEN done("nil")
         ELSE IF st.vi + 1 > Len(env.walIDs) THEN done("panicIndex")
         ELSE LET fid == env.walIDs[st.vi + 1]
              IN IF fid \notin DOMAIN env.vd THEN done("err")
                 ELSE IF fileSize(env.vd[fid]) < vlogHeaderSize
                   THEN done("panicTruncate")
                   ELSE LET it == newLogIterator("vlog", fid, vlogHeaderSize)
                            r == iterateEntries(st.wIt, env.wd, env.vd)
                        IN replayLoop([st EXCEPT !.vi = @ + 1,
                                                 !.vlogFid = fid,
                                                 !.vIt = it,
                                                 !.wIt = r.it,
                                                 !.vB = batchOf(r)], env)
  ELSE IF st.vB.ts # st.wB.ts
    THEN done("panicTruncate")
  ELSE LET out == st.out \o replayBatch(st.wB.entries, st.vB.entries, st.vlogFid)
           r1 == iterateEntries(st.wIt, env.wd, env.vd)
           r2 == iterateEntries(r1.it, env.wd, env.vd)
       IN replayLoop([st EXCEPT !.out = out,
                                !.wIt = r2.it,
                                !.wB = batchOf(r1),
                                !.vB = batchOf(r2)], env)

\* logFile.bootstrap of a file shorter than the header
bootstrapped(files, fid) ==
  IF fileSize(files[fid]) < vlogHeaderSize
    THEN [files EXCEPT ![fid] = LogFile(<<>>)]
    ELSE files

NoReplayState == [none |-> TRUE]

\* logReplayer.replay: [res, out, wd, vd, st]; res is "nil", "err", or a panic
replay(walIDs, vlogIDs, vhead, readOnly, wd, vd) ==
  IF Len(walIDs) = 0
    THEN [res |-> "nil", out |-> <<>>, wd |-> wd, vd |-> vd, st |-> NoReplayState]
  ELSE IF Len(vlogIDs) = 0
    THEN [res |-> "panicIndex", out |-> <<>>, wd |-> wd, vd |-> vd,
          st |-> NoReplayState]
  ELSE
    LET vfid == vlogIDs[1]
        wfid == walIDs[1]
        vShort == fileSize(vd[vfid]) < vlogHeaderSize
        wShort == fileSize(wd[wfid]) < vlogHeaderSize
        vd2 == bootstrapped(vd, vfid)
        wd2 == bootstrapped(wd, wfid)
    IN IF vShort /\ readOnly
         THEN [res |-> "err", out |-> <<>>, wd |-> wd, vd |-> vd,
               st |-> NoReplayState]
       ELSE IF wShort /\ readOnly
         THEN [res |-> "err", out |-> <<>>, wd |-> wd, vd |-> vd2,
               st |-> NoReplayState]
       ELSE
         LET vlogOffset == IF vfid = vhead.Fid THEN vhead.Offset ELSE vlogHeaderSize
             vIt0 == newLogIterator("vlog", vfid, vlogOffset)
             wIt0 == newLogIterator("wal", wfid, vlogHeaderSize)
             rw == iterateEntries(wIt0, wd2, vd2)
             rv == iterateEntries(vIt0, wd2, vd2)
             st0 == [wi |-> 1, vi |-> 1, walFid |-> wfid, walClosed |-> FALSE,
                     vlogFid |-> vfid, wIt |-> rw.it, vIt |-> rv.it,
                     wB |-> batchOf(rw), vB |-> batchOf(rv), out |-> <<>>]
             r == replayLoop(st0, [walIDs |-> walIDs, vlogIDs |-> vlogIDs,
                                   wd |-> wd2, vd |-> vd2])
         IN [res |-> r.res, out |-> r.out, wd |-> wd2, vd |-> vd2, st |-> r.st]


(***************************************************************************)
(* The log manager                                                         *)
(***************************************************************************)
NoMgr == [none |-> TRUE]
NoWrite == [none |-> TRUE]
NoRead == [none |-> TRUE]
NoSession == [none |-> TRUE]
EmptyDir == [fid \in {} |-> NoFile]

SetMax(S) == IF S = {} THEN 0 ELSE CHOOSE x \in S : \A y \in S : y <= x

\* sort.Slice over the ids: ascending
RECURSIVE sortedIDs(_)
sortedIDs(S) ==
  IF S = {} THEN <<>>
  ELSE LET m == CHOOSE x \in S : \A y \in S : x <= y
       IN <<m>> \o sortedIDs(S \ {m})

\* the directory d without the files of D
removeFiles(d, D) == [fid \in (DOMAIN d) \ D |-> d[fid]]

\* the directory d with file f under id fid
putFile(d, fid, f) == [x \in (DOMAIN d) \cup {fid} |-> IF x = fid THEN f ELSE d[x]]

\* the WAL ids openLogManager removes from the replay list (and deletes when
\* not read-only): "if fid > walhead { ...; continue }"
skippedWALs(walFiles, walhead) == {fid \in walFiles : fid > walhead}

\* the vlog ids openLogManager keeps: it skips "fid < vhead.Fid"
filteredVlogs(vlogFiles, vhead) == {fid \in vlogFiles : ~(fid < vhead.Fid)}

InitLog ==
  /\ walDisk = EmptyDir
  /\ vlogDisk = EmptyDir
  /\ lpc = "closed"
  /\ opt = NoArg
  /\ oarg = NoArg
  /\ manager = NoMgr
  /\ replayer = NoArg
  /\ replayed = <<>>
  /\ openResult = "none"
  /\ wpc = "idle"
  /\ wr = NoWrite
  /\ writeResult = "none"
  /\ rdpc = "idle"
  /\ rd = NoRead
  /\ readResult = NoRead
  /\ rlocks = [fid \in {} |-> 0]
  /\ unlockCbs = [fid \in {} |-> 0]
  /\ durable = <<>>
  /\ session = NoSession
  /\ nextTs = 1
  /\ maxWalEver = 0
  /\ diskAtOpen = NoArg
  /\ ops = 0

\* the memory of the process is gone: a crash, a panic, or its exit
processGone ==
  /\ lpc' = "closed"
  /\ manager' = NoMgr
  /\ wpc' = "idle"
  /\ wr' = NoWrite
  /\ rdpc' = "idle"
  /\ rd' = NoRead
  /\ rlocks' = [fid \in {} |-> 0]
  /\ unlockCbs' = [fid \in {} |-> 0]
  /\ opt' = NoArg
  /\ oarg' = NoArg
  /\ replayer' = NoArg
  /\ diskAtOpen' = NoArg

\* openLogManager: the manager object is allocated
OpenStart(walhead, vhead, readOnly, loadingMode, encrypted) ==
  /\ lpc = "closed"
  /\ ops < MaxOps
  /\ ops' = ops + 1
  /\ lpc' = "filter"
  /\ opt' = [ReadOnly |-> readOnly, ValueLogLoadingMode |-> loadingMode,
             Encrypted |-> encrypted]
  /\ oarg' = [walhead |-> walhead, vhead |-> vhead]
  /\ manager' = [maxWalID |-> 0, maxVlogID |-> 0, wal |-> 0, vlog |-> 0,
                 vlogFileMap |-> {}, walOffset |-> 0, vlogOffset |-> 0]
  /\ replayer' = NoArg
  /\ diskAtOpen' = [wal |-> walDisk, vlog |-> vlogDisk, session |-> session]
  /\ replayed' = <<>>
  /\ openResult' = "none"
  /\ writeResult' = "none"
  /\ readResult' = NoRead
  /\ UNCHANGED <<diskVars, wpc, wr, rdpc, rd, rlocks, unlockCbs, ghostVars>>
  /\ UNCHANGED <<regVars, iterVars>>

\* openLogManager: list the .log and .vlog files, delete and filter, sort
OpenFilter ==
  /\ lpc = "filter"
  /\ LET walFiles == DOMAIN walDisk
         vlogFiles == DOMAIN vlogDisk
         skipped == skippedWALs(walFiles, oarg.walhead)
     IN /\ manager' = [manager EXCEPT !.maxWalID = SetMax(walFiles),
                                      !.maxVlogID = SetMax(vlogFiles)]
        /\ walDisk' = IF opt.ReadOnly THEN walDisk ELSE removeFiles(walDisk, skipped)
        /\ replayer' = [walIDs |-> sortedIDs(walFiles \ skipped),
                        vlogIDs |-> sortedIDs(filteredVlogs(vlogFiles, oarg.vhead))]
  /\ lpc' = "replay"
  /\ session' = NoSession
  /\ UNCHANGED <<vlogDisk, opt, oarg, diskAtOpen, replayed, openResult, writeVars,
                 readVars, durable, nextTs, maxWalEver, ops>>
  /\ UNCHANGED <<regVars, iterVars>>

\* openLogManager: replayer.replay(replayFn)
OpenReplay ==
  /\ lpc = "replay"
  /\ LET r == replay(replayer.walIDs, replayer.vlogIDs, oarg.vhead, opt.ReadOnly,
                     walDisk, vlogDisk)
     IN /\ walDisk' = r.wd
        /\ vlogDisk' = r.vd
        /\ replayed' = r.out
        /\ IF r.res = "nil"
             THEN /\ lpc' = "finish"
                  /\ UNCHANGED <<manager, openResult, writeVars, readVars, openArgVars>>
             ELSE /\ openResult' = (IF r.res = "err" THEN "err" ELSE "panic")
                  /\ processGone
                  /\ UNCHANGED <<writeResult, readResult>>
  /\ UNCHANGED <<ghostVars, ops>>
  /\ UNCHANGED <<regVars, iterVars>>

\* createlogFile leaves the directory as it is
createNothing(d, fid) == d

\* createlogFile: a new bootstrapped file, offset vlogHeaderSize
createlogFile(d, fid) == putFile(d, fid, LogFile(<<>>))

\* openLogManager after the replay: create or reopen the files
OpenFinish ==
  /\ lpc = "finish"
  /\ IF manager.maxWalID = 0
       THEN IF manager.maxVlogID # 0
              THEN \* y.AssertTrue(manager.maxVlogID == 0) fails
                   /\ openResult' = "panic"
                   /\ processGone
                   /\ UNCHANGED <<diskVars, maxWalEver>>
              ELSE /\ walDisk' = createlogFile(walDisk, 1)
                   /\ vlogDisk' = createlogFile(vlogDisk, 1)
                   /\ manager' = [manager EXCEPT !.maxWalID = 1, !.maxVlogID = 1,
                                    !.wal = 1, !.vlog = 1, !.vlogFileMap = {1},
                                    !.walOffset = vlogHeaderSize,
                                    !.vlogOffset = vlogHeaderSize]
                   /\ maxWalEver' = SetMax({maxWalEver, 1})
                   /\ openResult' = "nil"
                   /\ lpc' = "ready"
                   /\ UNCHANGED <<writeVars, readVars, openArgVars>>
       ELSE LET m1 == [manager EXCEPT !.vlogFileMap = DOMAIN vlogDisk]
            IN IF opt.ReadOnly
                 THEN /\ manager' = m1
                      /\ openResult' = "nil"
                      /\ lpc' = "ready"
                      /\ UNCHANGED <<diskVars, maxWalEver, writeVars, readVars, openArgVars>>
               ELSE IF manager.maxWalID = oarg.walhead \/ oarg.walhead = 0
                 THEN LET fid == manager.maxWalID + 1
                      IN /\ walDisk' = createlogFile(walDisk, fid)
                         /\ manager' = [m1 EXCEPT !.maxWalID = fid, !.wal = fid,
                                                  !.walOffset = vlogHeaderSize]
                         /\ maxWalEver' = SetMax({maxWalEver, fid})
                         /\ openResult' = "nil"
                         /\ lpc' = "ready"
                         /\ UNCHANGED <<vlogDisk, writeVars, readVars, openArgVars>>
               ELSE IF manager.maxWalID \notin DOMAIN walDisk
                 THEN \* wal.open fails: the file is gone
                      /\ openResult' = "err"
                      /\ processGone
                      /\ UNCHANGED <<diskVars, maxWalEver>>
                 ELSE /\ manager' = [m1 EXCEPT !.wal = manager.maxWalID,
                                       !.walOffset = fileSize(walDisk[manager.maxWalID])]
                      /\ openResult' = "nil"
                      /\ lpc' = "ready"
                      /\ UNCHANGED <<diskVars, maxWalEver, writeVars, readVars, openArgVars>>
  /\ UNCHANGED <<replayed, writeResult, readResult, durable,
                 session, nextTs, ops>>
  /\ UNCHANGED <<regVars, iterVars>>


(***************************************************************************)
(* write                                                                   *)
(***************************************************************************)
\* the value sizes write() is called with: at most, and above, ValueThreshold
smallLen == ValueThreshold
bigLen == ValueThreshold + 1

\* db.shouldWriteValueToLSM: the value is no longer than ValueThreshold
shouldWriteValueToLSM(e) == e.vlen <= ValueThreshold

\* the shapes of the requests handed to write(): each entry is a small value,
\* a big value, or a small value with skipVlog set
EntryKinds == {"small", "big", "skip"}
Shapes == {<<"small">>, <<"big">>, <<"small", "big">>, <<"big", "small">>,
           <<"skip", "big">>}

\* a request of the given shape committing at ts: its entries, then the two
\* end-markers the transaction layer appends
request(shape, ts) ==
  [Entries |-> [j \in 1..Len(shape) |->
                  TxnEntry(j, ts, IF shape[j] = "big" THEN bigLen ELSE smallLen,
                           shape[j] = "skip")]
                \o <<FinEntry(ts), FinEntry(ts)>>,
   Ptrs |-> <<>>]

requestsOf(shapes, ts) == [i \in 1..Len(shapes) |-> request(shapes[i], ts + i - 1)]

\* the loop of write() over the entries of one request, from entry j on;
\* w is [walBuf, vlogBuf, Ptrs, log]
RECURSIVE writeEntries(_, _, _, _, _)
writeEntries(Entries, j, w, vlogFid, vlogOffset) ==
  IF j > Len(Entries) - 2 THEN w
  ELSE LET e == Entries[j]
           p0 == IF e.skipVlog THEN Append(w.Ptrs, emptyPtr) ELSE w.Ptrs
       IN IF shouldWriteValueToLSM(e)
            THEN writeEntries(Entries, j + 1,
                   [w EXCEPT !.walBuf = Append(@, e),
                             !.Ptrs = Append(p0, emptyPtr),
                             !.log = Append(@, [e |-> e, vp |-> emptyPtr])],
                   vlogFid, vlogOffset)
            ELSE LET p == [Fid |-> vlogFid,
                           Offset |-> vlogOffset + bufLen(w.vlogBuf),
                           Len |-> entryLen(e)]
                 IN writeEntries(Entries, j + 1,
                      [w EXCEPT !.vlogBuf = Append(@, e),
                                !.Ptrs = Append(p0, p),
                                !.log = Append(@, [e |-> e, vp |-> p])],
                      vlogFid, vlogOffset)

\* the body of write() for request b: its entries, then the WAL end-marker
\* Entries[len-2] and the vlog end-marker Entries[len-1], each with an empty
\* pointer
writeRequest(b, w, vlogFid, vlogOffset) ==
  LET w1 == writeEntries(b.Entries, 1, [w EXCEPT !.Ptrs = <<>>], vlogFid, vlogOffset)
      n == Len(b.Entries)
      w2 == [w1 EXCEPT !.walBuf = Append(@, b.Entries[n - 1]),
                       !.Ptrs = Append(@, emptyPtr)]
      w3 == [w2 EXCEPT !.vlogBuf = Append(@, b.Entries[n]),
                       !.Ptrs = Append(@, emptyPtr)]
  IN w3

\* the loop of write() over the requests: [reqs, walBuf, vlogBuf, Ptrs, log],
\* reqs being the requests with their Ptrs filled in
RECURSIVE writeRequests(_, _, _, _, _)
writeRequests(reqs, i, w, vlogFid, vlogOffset) ==
  IF i > Len(reqs) THEN w
  ELSE LET w1 == writeRequest(reqs[i], w, vlogFid, vlogOffset)
       IN writeRequests(reqs, i + 1,
                        [w1 EXCEPT !.reqs = Append(@, [reqs[i] EXCEPT !.Ptrs = w1.Ptrs])],
                        vlogFid, vlogOffset)

\* the two buffers handed to writeLog vlog first
vlogFirst == <<"vlog", "wal">>

\* the order in which write() hands its two buffers to writeLog
flushOrder == <<"wal", "vlog">>

\* writeLog: the buffer is appended to the file at its write offset
writeLog(d, fid, buf) == [d EXCEPT ![fid].recs = @ \o buf]

\* write(): the loop that encodes every request into walBuf and vlogBuf
WriteEncode(shapes) ==
  /\ lpc = "ready"
  /\ wpc = "idle"
  /\ ops < MaxOps
  /\ nextTs + Len(shapes) - 1 <= MaxTs
  /\ ops' = ops + 1
  /\ nextTs' = nextTs + Len(shapes)
  /\ IF manager.wal = 0 \/ manager.vlog = 0
       THEN \* manager.wal.fid or manager.vlog.fid on a nil file
            /\ writeResult' = "panic"
            /\ processGone
            /\ UNCHANGED <<readResult, session>>
       ELSE /\ wr' = writeRequests(requestsOf(shapes, nextTs), 1,
                       [reqs |-> <<>>, walBuf |-> <<>>, vlogBuf |-> <<>>,
                        Ptrs |-> <<>>, log |-> <<>>],
                       manager.vlog, manager.vlogOffset)
            /\ wpc' = "flush1"
            /\ writeResult' = "none"
            /\ session' = [wal |-> manager.wal, vlog |-> manager.vlog]
            /\ UNCHANGED <<lpc, manager, readVars, openArgVars>>
  /\ UNCHANGED <<diskVars, openOutVars, durable, maxWalEver>>
  /\ UNCHANGED <<regVars, iterVars>>

flushPos == IF wpc = "flush1" THEN 1 ELSE 2

\* after a flush: the other buffer is next, or write() returns nil
afterFlush ==
  IF wpc = "flush1"
    THEN /\ wpc' = "flush2"
         /\ UNCHANGED <<wr, writeResult, durable>>
    ELSE /\ wpc' = "idle"
         /\ wr' = NoWrite
         /\ writeResult' = "nil"
         /\ durable' = durable \o wr.log

\* write(): manager.wal.writeLog(walBuf) succeeds
WriteFlushWal ==
  /\ wpc \in {"flush1", "flush2"}
  /\ flushOrder[flushPos] = "wal"
  /\ walDisk' = writeLog(walDisk, manager.wal, wr.walBuf)
  /\ manager' = [manager EXCEPT !.walOffset = @ + bufLen(wr.walBuf)]
  /\ afterFlush
  /\ UNCHANGED <<vlogDisk, lpc, openLogVars, readVars, session, nextTs, maxWalEver, ops>>
  /\ UNCHANGED <<regVars, iterVars>>

\* write(): manager.vlog.writeLog(vlogBuf) succeeds
WriteFlushVlog ==
  /\ wpc \in {"flush1", "flush2"}
  /\ flushOrder[flushPos] = "vlog"
  /\ vlogDisk' = writeLog(vlogDisk, manager.vlog, wr.vlogBuf)
  /\ manager' = [manager EXCEPT !.vlogOffset = @ + bufLen(wr.vlogBuf)]
  /\ afterFlush
  /\ UNCHANGED <<walDisk, lpc, openLogVars, readVars, session, nextTs, maxWalEver, ops>>
  /\ UNCHANGED <<regVars, iterVars>>

\* write(): writeLog returns an error and write() returns it
WriteFlushFail ==
  /\ wpc \in {"flush1", "flush2"}
  /\ wpc' = "idle"
  /\ wr' = NoWrite
  /\ writeResult' = (IF flushOrder[flushPos] = "wal" THEN "walErr" ELSE "vlogErr")
  /\ UNCHANGED <<diskVars, lpc, manager, openLogVars, readVars, ghostVars, ops>>
  /\ UNCHANGED <<regVars, iterVars>>

(***************************************************************************)
(* Read                                                                    *)
(***************************************************************************)
Count(f, fid) == IF fid \in DOMAIN f THEN f[fid] ELSE 0
Incr(f, fid) == [x \in (DOMAIN f) \cup {fid} |-> IF x = fid THEN Count(f, fid) + 1 ELSE f[x]]
Decr(f, fid) == [f EXCEPT ![fid] = @ - 1]

\* the pointers Read is called with: those write() returned, and pointers at
\* and around the end of the vlog files
ReadPtrs ==
  {durable[i].vp : i \in {j \in 1..Len(durable) : durable[j].vp # emptyPtr}}
  \cup {[Fid |-> f, Offset |-> o, Len |-> entryLen(TxnEntry(1, 1, bigLen, FALSE))] :
          f \in {1, 2},
          o \in {vlogHeaderSize} \cup
                {fileSize(vlogDisk[g]) + d : g \in DOMAIN vlogDisk, d \in {0, 1}}}

\* the result of a Read that returned: the pointer, the error, whether an
\* unlock callback came with it, and the loading mode it ran in
readReturn(vp, err, cb) ==
  [vp |-> vp, err |-> err, cb |-> cb, mode |-> opt.ValueLogLoadingMode]

\* Read: the check of the pointer against the active vlog
ReadStart(vp) ==
  /\ lpc = "ready"
  /\ rdpc = "idle"
  /\ ops < MaxOps
  /\ ops' = ops + 1
  /\ IF vp.Fid = manager.maxVlogID /\ manager.vlog = 0
       THEN \* lm.vlog.fileOffset() on a nil file
            /\ readResult' = readReturn(vp, "panic", FALSE)
            /\ processGone
            /\ UNCHANGED writeResult
     ELSE IF vp.Fid = manager.maxVlogID /\ vp.Offset >= manager.vlogOffset
       THEN /\ readResult' = readReturn(vp, "invalidPointer", FALSE)
            /\ UNCHANGED <<lpc, manager, writeVars, rdpc, rd, rlocks, unlockCbs,
                           openArgVars>>
       ELSE /\ rdpc' = "getFile"
            /\ rd' = [vp |-> vp, lf |-> 0, err |-> "nil", cb |-> FALSE]
            /\ UNCHANGED <<lpc, manager, writeVars, readResult, rlocks, unlockCbs,
                           openArgVars>>
  /\ UNCHANGED <<diskVars, openOutVars, ghostVars>>
  /\ UNCHANGED <<regVars, iterVars>>

\* getFileRLocked: ErrRetry when the file is not in the map, else the file
\* with its shared lock taken
getFileRLocked ==
  /\ rdpc = "getFile"
  /\ IF rd.vp.Fid \notin manager.vlogFileMap
       THEN /\ rd' = [rd EXCEPT !.err = "ErrRetry"]
            /\ UNCHANGED rlocks
       ELSE /\ rd' = [rd EXCEPT !.lf = rd.vp.Fid]
            /\ rlocks' = Incr(rlocks, rd.vp.Fid)
  /\ rdpc' = "read"
  /\ UNCHANGED <<diskVars, lpc, manager, openLogVars, writeVars, readResult,
                 unlockCbs, ghostVars, ops>>
  /\ UNCHANGED <<regVars, iterVars>>

\* the bytes lf.read can hand out: in MemoryMap mode the mapped region, which
\* createlogFile makes 2 * ValueLogFileSize long for the vlog it creates and
\* which is the file for a vlog that was opened; in FileIO mode the file
readableSize(lf) ==
  IF opt.ValueLogLoadingMode = "MemoryMap" /\ lf = manager.vlog
    THEN 2 * ValueLogFileSize
    ELSE fileSize(vlogDisk[lf])

\* readValueBytes: lf.read of the locked file succeeds or fails
readValueBytes(ok) ==
  /\ rdpc = "read"
  /\ IF rd.err # "nil" THEN ok
     ELSE ok => rd.vp.Offset + rd.vp.Len <= readableSize(rd.lf)
  /\ rd' = [rd EXCEPT !.err = IF ok THEN @ ELSE "readErr"]
  /\ rdpc' = "cb"
  /\ UNCHANGED <<diskVars, lpc, manager, openLogVars, writeVars, readResult, rlocks,
                 unlockCbs, ghostVars, ops>>
  /\ UNCHANGED <<regVars, iterVars>>

\* a getUnlockCallback that never unlocks by itself
unlockNever(lf, loadingMode) == FALSE

\* what getUnlockCallback does with the lock of lf, by loading mode
unlockNow(lf, loadingMode) == lf # 0 /\ loadingMode # "MemoryMap"
returnsCallback(lf, loadingMode) == lf # 0 /\ loadingMode = "MemoryMap"

\* getUnlockCallback: nil for a nil file; lf.lock.RUnlock as the callback in
\* MemoryMap mode; else RUnlock now and nil
getUnlockCallback ==
  /\ rdpc = "cb"
  /\ rlocks' = IF unlockNow(rd.lf, opt.ValueLogLoadingMode)
                 THEN Decr(rlocks, rd.lf) ELSE rlocks
  /\ rd' = [rd EXCEPT !.cb = returnsCallback(rd.lf, opt.ValueLogLoadingMode)]
  /\ rdpc' = "return"
  /\ UNCHANGED <<diskVars, lpc, manager, openLogVars, writeVars, readResult,
                 unlockCbs, ghostVars, ops>>
  /\ UNCHANGED <<regVars, iterVars>>

\* Read returns: the read error, or the decoded (and decrypted) value, or the
\* decryption error; the callback goes to the caller
ReadReturn(decryptOk) ==
  /\ rdpc = "return"
  /\ decryptOk \/ (rd.err = "nil" /\ opt.Encrypted)
  /\ readResult' = readReturn(rd.vp, IF rd.err # "nil" THEN rd.err
                                     ELSE IF decryptOk THEN "nil" ELSE "decryptErr",
                              rd.cb)
  /\ unlockCbs' = IF rd.cb THEN Incr(unlockCbs, rd.lf) ELSE unlockCbs
  /\ rd' = NoRead
  /\ rdpc' = "idle"
  /\ UNCHANGED <<diskVars, lpc, manager, openLogVars, writeVars, rlocks, ghostVars, ops>>
  /\ UNCHANGED <<regVars, iterVars>>

\* the caller invokes an unlock callback it holds: lf.lock.RUnlock
InvokeCallback(fid) ==
  /\ Count(unlockCbs, fid) > 0
  /\ unlockCbs' = Decr(unlockCbs, fid)
  /\ rlocks' = Decr(rlocks, fid)
  /\ UNCHANGED <<diskVars, lpc, manager, openLogVars, writeVars, rdpc, rd, readResult,
                 ghostVars, ops>>
  /\ UNCHANGED <<regVars, iterVars>>

\* the process stops at any point; the files stay as they are
Crash ==
  /\ lpc # "closed"
  /\ processGone
  /\ UNCHANGED <<diskVars, openOutVars, writeResult, readResult, ghostVars, ops>>
  /\ UNCHANGED <<regVars, iterVars>>

\* the heads openLogManager is called with: a WAL id the directory has had, and
\* the pointer of an entry the LSM tree has flushed
WalHeads == 0..maxWalEver
VHeads == {emptyPtr} \cup
          {durable[i].vp : i \in {j \in 1..Len(durable) : durable[j].vp # emptyPtr}}
LoadingModes == {"MemoryMap", "FileIO"}

NextLog ==
  \/ \E walhead \in WalHeads, vhead \in VHeads, readOnly \in BOOLEAN,
        loadingMode \in LoadingModes, encrypted \in BOOLEAN :
       OpenStart(walhead, vhead, readOnly, loadingMode, encrypted)
  \/ OpenFilter
  \/ OpenReplay
  \/ OpenFinish
  \/ \E n \in 1..2 : \E shapes \in [1..n -> Shapes] : WriteEncode(shapes)
  \/ WriteFlushWal
  \/ WriteFlushVlog
  \/ WriteFlushFail
  \/ \E vp \in ReadPtrs : ReadStart(vp)
  \/ getFileRLocked
  \/ \E ok \in BOOLEAN : readValueBytes(ok)
  \/ getUnlockCallback
  \/ \E decryptOk \in BOOLEAN : ReadReturn(decryptOk)
  \/ \E fid \in DOMAIN unlockCbs : InvokeCallback(fid)
  \/ Crash

\* no iterator on its own
InitIter ==
  /\ itFile = LogFile(<<>>)
  /\ iterator = NoArg
  /\ itBatches = <<>>

Init == InitReg /\ InitLog /\ InitIter

Spec == Init /\ [][NextLog]_vars

SpecReg == Init /\ [][NextReg]_vars

\* the key registry with two goroutines calling getDataKey
NextRegConc ==
  \/ Tick
  \/ \E readOnly \in BOOLEAN, key \in StorageKeys : OpenKeyRegistry(readOnly, key)
  \/ OpenKeyRegistryFinish
  \/ RewriteOpenTrunc
  \/ RewriteHeader
  \/ RewriteRename
  \/ CloseRegistry
  \/ \E c \in Callers : getDataKeyCheck(c)
  \/ \E c \in Callers : getDataKeyIncr(c)
  \/ \E c \in Callers : getDataKeyMake(c)
  \/ \E c \in Callers : getDataKeyStore(c)
  \/ \E c \in Callers : getDataKeyStoreFail(c)
  \/ \E c \in Callers : getDataKeyRecord(c)

SpecRegConc == Init /\ [][NextRegConc]_vars

(***************************************************************************)
(* iterateEntries on any log file                                          *)
(***************************************************************************)
\* an entry with neither bitTxn nor bitFinTxn set
PlainEntry(key, ts, vlen) ==
  [meta |-> "none", key |-> key, ts |-> ts, vlen |-> vlen, skipVlog |-> FALSE]

\* the records a log file may hold: any meta bits, any timestamp from 0 on
StreamEntries ==
  {TxnEntry(1, ts, smallLen, FALSE) : ts \in 0..MaxTs}
    \cup {FinEntry(ts) : ts \in 0..MaxTs}
    \cup {PlainEntry(1, ts, smallLen) : ts \in 0..MaxTs}

Streams == UNION {[1..n -> StreamEntries] : n \in 0..MaxStream}

\* newLogIterator on a log file of any content
InitIterate ==
  /\ InitReg
  /\ InitLog
  /\ itFile \in {LogFile(recs) : recs \in Streams}
  /\ iterator = newLogIterator("wal", 1, vlogHeaderSize)
  /\ itBatches = <<>>

\* one call of iterator.iterateEntries(); the caller stops at the first error
iterateEntriesCall ==
  /\ iterator # NoArg
  /\ itBatches # <<>> => itBatches[Len(itBatches)].err = "nil"
  /\ LET r == iterateEntries(iterator, 1 :> itFile, EmptyDir)
     IN /\ iterator' = r.it
        /\ itBatches' = Append(itBatches, batchOf(r))
  /\ UNCHANGED <<itFile, regVars, logVars>>

NextIter == iterateEntriesCall

SpecIter == InitIterate /\ [][NextIter]_vars


(***************************************************************************)
(* Claims about the key registry                                           *)
(***************************************************************************)
\* every slot of the map holds the key carrying the slot's id
WellFormed(dataKeys) == \A id \in DOMAIN dataKeys : dataKeys[id].KeyID = id

\* the registry kr was built from the file the last RewriteRegistry wrote,
\* with the storage key of that rewrite
BuiltFromRewrite ==
  /\ rwOrig # NoArg
  /\ kr # NoKr
  /\ rpc = "idle"
  /\ kr.fp = "file"
  /\ kr.storageKey = rwOrig.key
  /\ WellFormed(rwOrig.reg.dataKeys)

\* C5: RewriteRegistry(dir, R, key) followed by OpenKeyRegistry(dir, key)
\* yields a registry with the same set of key ids as R, each id mapped to the
\* data key carrying that id, with the same plaintext material, whatever the
\* order of the records in the file.
C5_RewriteOpenRoundTrip ==
  BuiltFromRewrite =>
    /\ DOMAIN kr.dataKeys = DOMAIN rwOrig.reg.dataKeys
    /\ \A id \in DOMAIN kr.dataKeys :
         /\ kr.dataKeys[id].KeyID = id
         /\ id \in DOMAIN rwOrig.reg.dataKeys
              => kr.dataKeys[id].Data = rwOrig.reg.dataKeys[id].Data

\* a rotating getDataKey creates exactly one key, with id next_id + 1, whose
\* record is in the registry file before the key is recorded in memory or
\* returned
RotatesOnce(c) ==
  getDataKeyRecord(c) =>
    /\ DOMAIN kr'.dataKeys = DOMAIN kr.dataKeys \cup {gstart[c] + 1}
    /\ kr'.dataKeys[gstart[c] + 1].KeyID = gstart[c] + 1
    /\ gret'[c].key = kr'.dataKeys[gstart[c] + 1]
    /\ \A id \in DOMAIN kr.dataKeys \ {gstart[c] + 1} :
         kr'.dataKeys[id] = kr.dataKeys[id]
    /\ FpFile # NoFile
    /\ Len(FpFile.recs) > 0
    /\ FpFile.recs[Len(FpFile.recs)] = storeDataKeyRecord(kr.storageKey, gret'[c].key)
    /\ UNCHANGED fsVars

\* a later call within the rotation period returns the newest key and appends
\* no record
SameKeyWithinPeriod(c) ==
  (getDataKeyCheck(c) /\ kr.storageKey # 0 /\ newest # NoKey
     /\ withinRotationPeriod(newest.CreatedAt)) =>
       /\ gret'[c] = [kind |-> "existing", key |-> newest]
       /\ UNCHANGED fsVars

\* C6: when the newest data key is older than the rotation period, one call to
\* getDataKey creates exactly one new key with id next_id + 1 and persists its
\* record before recording or returning it; every later call within the
\* rotation period returns that same key and appends no record.
C6_RotateOnceThenSame ==
  [][\A c \in SeqCallers : RotatesOnce(c) /\ SameKeyWithinPeriod(c)]_vars

\* C7: opening an existing registry file written under storage key K with
\* another key K' returns ErrEncryptionKeyMismatch, reads no data-key
\* record, returns no registry and changes no file.
C7_KeyMismatch ==
  [][\A ro \in BOOLEAN, key \in StorageKeys :
       (OpenKeyRegistry(ro, key) /\ regFile # NoFile /\ key # fileKey) =>
          /\ openRes' = "ErrEncryptionKeyMismatch"
          /\ kr' = NoKr
          /\ recsRead' = 0
          /\ UNCHANGED fsVars]_vars

\* a registry file holding data-key records was opened with the wrong key
C7_Witness ==
  /\ openRes = "ErrEncryptionKeyMismatch"
  /\ regFile # NoFile
  /\ Len(regFile.recs) > 0
  /\ fileKey # 0

\* the key ids of the records of a registry file
recordIDs(file) == {file.recs[i].KeyID : i \in 1..Len(file.recs)}

\* C11: for two concurrent getDataKey calls on an expired registry the expiry
\* check and the key creation are one critical section: the two callers never
\* both create a key for the same expiry (one creates it, the other receives
\* it), and no two persisted keys share an id.
C11_GetDataKeyCriticalSection ==
  /\ ~(/\ gret[1].kind = "created"
       /\ gret[2].kind = "created"
       /\ gret[1].key.CreatedAt = gret[2].key.CreatedAt)
  /\ (kr # NoKr /\ FpFile # NoFile) =>
       Cardinality(recordIDs(FpFile)) = Len(FpFile.recs)

\* the file holds a complete registry: IV, the sanity text under the storage
\* key of the rewrite, and one record for every data key of the registry given
CompleteRegistryFile(file) ==
  /\ file # NoFile
  /\ file.hdr
  /\ sanityCheck(file, rwArg.storageKey)
  /\ Len(file.recs) = Cardinality(DOMAIN rwOrig.reg.dataKeys)
  /\ recordIDs(file) = {rwOrig.reg.dataKeys[id].KeyID : id \in DOMAIN rwOrig.reg.dataKeys}

\* C14: at every step of RewriteRegistry, an error return or a crash included,
\* KEYREGISTRY stays as it was or becomes the complete new content; it is
\* never seen partially written.
C14_RewriteAtomic ==
  [][rpc # "idle" =>
       \/ regFile' = regFile
       \/ regFile' = tmpFile /\ CompleteRegistryFile(tmpFile)]_vars

\* RewriteRegistry has replaced an existing KEYREGISTRY by a file with records
C14_Witness ==
  /\ rpc = "idle"
  /\ rwOrig # NoArg
  /\ regFile # NoFile
  /\ Len(regFile.recs) = 2
  /\ tmpFile = NoFile
  /\ kr # NoKr
  /\ kr.fp = "orphan"

\* C23: in every registry state between calls every entry of the key map is
\* stored under its own KeyID and nextKeyID is the largest id of the map (0 for
\* an empty map); a getDataKey that fails leaves nextKeyID and the map as they
\* were when it was called.
C23_MapKeyedByOwnID ==
  /\ []((kr # NoKr /\ RegIdle) =>
          /\ WellFormed(kr.dataKeys)
          /\ kr.nextKeyID = SetMax(DOMAIN kr.dataKeys))
  /\ [][\A c \in SeqCallers :
          getDataKeyStoreFail(c) =>
            (kr'.nextKeyID = gstart[c] /\ kr'.dataKeys = kr.dataKeys)]_vars

\* C24: RewriteRegistry leaves the registry handed to it unchanged: when it
\* returns, with nil or with an error, with or without a storage key, every
\* data key of the registry holds the material it held at the call.
C24_RewriteLeavesRegistry ==
  [][((RewriteRename \/ RewriteFail) /\ rwArg.caller = "ext" /\ rwOrig # NoArg) =>
       kr'.dataKeys = rwOrig.reg.dataKeys]_vars

(***************************************************************************)
(* Claims about the log manager                                            *)
(***************************************************************************)
\* the commit timestamps of the end-markers among recs
markers(recs) == {recs[i].ts : i \in {j \in 1..Len(recs) : recs[j].meta = "fin"}}

\* the commit timestamps of the requests of the write() in progress
reqTs == {wr.reqs[i].Entries[1].ts : i \in 1..Len(wr.reqs)}

\* recs cut after its last end-marker whose timestamp is in M
truncatedTo(recs, M) ==
  LET I == {i \in 1..Len(recs) : recs[i].meta = "fin" /\ recs[i].ts \in M}
  IN SubSeq(recs, 1, SetMax(I))

\* the open in progress is a restart over logs a writing manager left, with
\* both heads below everything written
RestartBelow ==
  /\ diskAtOpen # NoArg
  /\ diskAtOpen.session # NoSession
  /\ oarg.walhead < diskAtOpen.session.wal
  /\ oarg.vhead = emptyPtr

atOpenWal == diskAtOpen.wal[diskAtOpen.session.wal].recs
atOpenVlog == diskAtOpen.vlog[diskAtOpen.session.vlog].recs

\* C1: after batches were written and flushed to both logs, a restart with
\* both heads below them hands the replay callback exactly those batches'
\* entries, batch after batch, WAL-resident entries with an empty pointer and
\* vlog-resident entries with the pointer write() computed.
C1_ReplayExactlyWritten ==
  [][(OpenReplay /\ RestartBelow /\ durable # <<>>
        /\ markers(atOpenWal) = markers(atOpenVlog)) =>
       /\ {replayed'[i] : i \in 1..Len(replayed')} = {durable[i] : i \in 1..Len(durable)}
       /\ Len(replayed') = Len(durable)
       /\ \A i, j \in 1..Len(replayed') :
            i < j => replayed'[i].e.ts <= replayed'[j].e.ts]_vars

\* C2: when the WAL ends with a complete batch the vlog lacks, the restart
\* replays no entry of that batch, truncates the WAL to the end of the last
\* batch present in both logs, leaves the vlog as it was, and returns normally.
C2_UnmatchedWalBatchTruncated ==
  [][(OpenReplay /\ RestartBelow /\ ~opt.ReadOnly
        /\ markers(atOpenWal) # markers(atOpenVlog)
        /\ markers(atOpenVlog) \subseteq markers(atOpenWal)) =>
       /\ openResult' \notin {"err", "panic"}
       /\ \A i \in 1..Len(replayed') : replayed'[i].e.ts \in markers(atOpenVlog)
       /\ diskAtOpen.session.wal \in DOMAIN walDisk'
       /\ walDisk'[diskAtOpen.session.wal].recs =
            truncatedTo(atOpenWal, markers(atOpenVlog))
       /\ vlogDisk' = diskAtOpen.vlog]_vars

\* C3: for one written batch whose entries are all WAL-resident, the reopen
\* pairs its two end-markers, hands the callback each WAL entry with an empty
\* pointer and no vlog entry, moves the WAL valid offset past the end-marker,
\* and asks for no truncation.
C3_WalOnlyBatchReplayed ==
  [][(OpenReplay /\ diskAtOpen # NoArg /\ diskAtOpen.session # NoSession
        /\ oarg.vhead = emptyPtr
        /\ durable # <<>>
        /\ (\A k \in 1..Len(durable) : durable[k].vp = emptyPtr /\ durable[k].e.ts = 1)
        /\ atOpenWal = [i \in 1..Len(durable) |-> durable[i].e] \o <<FinEntry(1)>>
        /\ atOpenVlog = <<FinEntry(1)>>) =>
       LET r == replay(replayer.walIDs, replayer.vlogIDs, oarg.vhead, opt.ReadOnly,
                       walDisk, vlogDisk)
       IN /\ replayed' = durable
          /\ r.res # "panicTruncate"
          /\ r.st # NoReplayState
          /\ r.st.wIt.validOffset = vlogHeaderSize + bufLen(atOpenWal)]_vars

\* C4: openLogManager hands the replayer the WAL files with id > wal_head, in
\* ascending order, keeps them on disk, and (unless read-only) deletes exactly
\* the WAL files with id <= wal_head.
C4_WalFilterByHead ==
  [][OpenFilter =>
       LET above == {fid \in DOMAIN walDisk : fid > oarg.walhead}
       IN /\ replayer'.walIDs = sortedIDs(above)
          /\ DOMAIN walDisk' = IF opt.ReadOnly THEN DOMAIN walDisk ELSE above
          /\ \A fid \in DOMAIN walDisk' : walDisk'[fid] = walDisk[fid]]_vars

\* C8: in write() every request's end-marker is in both buffers before either
\* is flushed; the WAL buffer is flushed first; a failed WAL flush leaves the
\* vlog file unwritten; so the vlog of a writing manager never holds a commit
\* marker its WAL lacks, also after a crash between the flushes.
C8_WalFlushedBeforeVlog ==
  /\ [](/\ wpc = "flush1" =>
             /\ markers(wr.walBuf) = reqTs
             /\ markers(wr.vlogBuf) = reqTs
             /\ reqTs \cap markers(walDisk[manager.wal].recs) = {}
             /\ reqTs \cap markers(vlogDisk[manager.vlog].recs) = {}
        /\ wpc = "flush2" =>
             /\ reqTs \subseteq markers(walDisk[manager.wal].recs)
             /\ reqTs \cap markers(vlogDisk[manager.vlog].recs) = {}
        /\ session # NoSession =>
             markers(vlogDisk[session.vlog].recs) \subseteq
               markers(walDisk[session.wal].recs))
  /\ [][(wpc = "flush1" /\ WriteFlushFail) =>
          (vlogDisk' = vlogDisk /\ wpc' = "idle" /\ writeResult' = "walErr")]_vars

\* write() of two requests stands between its two flushes
C8_Witness ==
  /\ wpc = "flush2"
  /\ Len(wr.reqs) = 2
  /\ reqTs = {1, 2}
  /\ markers(vlogDisk[manager.vlog].recs) = {}

\* Read holds the shared lock of fid itself
readerHolds(fid) ==
  /\ rd # NoRead
  /\ rd.lf = fid
  /\ rdpc \in {"read", "cb"} \/ (rdpc = "return" /\ rd.cb)

\* C9: every shared lock Read takes is released exactly once on every path:
\* in FileIO mode before Read returns, with a nil callback; in MemoryMap mode
\* by the returned callback; a fid absent from the map gives ErrRetry, no lock
\* and a nil callback.
C9_LockReleasedOnce ==
  /\ \A fid \in (DOMAIN rlocks) \cup (DOMAIN unlockCbs) :
       Count(rlocks, fid) =
         Count(unlockCbs, fid) + (IF readerHolds(fid) THEN 1 ELSE 0)
  /\ (rdpc = "return" /\ opt.ValueLogLoadingMode = "FileIO") => ~rd.cb
  /\ (rdpc = "return" /\ rd.err = "ErrRetry") => (~rd.cb /\ rd.lf = 0)
  /\ readResult # NoRead =>
       /\ readResult.cb => readResult.mode = "MemoryMap"
       /\ readResult.err \in {"ErrRetry", "invalidPointer", "panic"} => ~readResult.cb
       /\ (readResult.mode = "MemoryMap"
             /\ readResult.err \in {"nil", "readErr", "decryptErr"}) => readResult.cb

\* a Read in MemoryMap mode failed to read and its caller holds the callback
C9_Witness ==
  /\ readResult # NoRead
  /\ readResult.err = "readErr"
  /\ readResult.cb
  /\ Count(rlocks, readResult.vp.Fid) = 1
  /\ rdpc = "idle"

\* C10: Read of a pointer into the active vlog (fid = max_vlog_id) at or past
\* that vlog's file offset returns the invalid-pointer error, takes no lock
\* and reads nothing.
C10_ActiveVlogPointerRejected ==
  [][\A vp \in ReadPtrs :
       (ReadStart(vp) /\ vp.Fid = manager.maxVlogID
          /\ vp.Offset >= fileSize(vlogDisk[manager.maxVlogID])) =>
         /\ readResult'.err = "invalidPointer"
         /\ rlocks' = rlocks
         /\ rdpc' = "idle"]_vars

\* the entries encoded into a buffer
bufEntries(buf) == {buf[i] : i \in 1..Len(buf)}

\* C12: for an entry with skipVlog set write() appends exactly one empty
\* pointer and encodes nothing into either buffer; so every request ends with
\* one pointer per entry, in entry order.
C12_SkipVlogOnePointer ==
  wpc \in {"flush1", "flush2"} =>
    \A i \in 1..Len(wr.reqs) :
      LET b == wr.reqs[i]
      IN /\ Len(b.Ptrs) = Len(b.Entries)
         /\ \A j \in 1..Len(b.Entries) :
              b.Entries[j].skipVlog =>
                /\ j <= Len(b.Ptrs)
                /\ b.Ptrs[j] = emptyPtr
                /\ b.Entries[j] \notin bufEntries(wr.walBuf) \cup bufEntries(wr.vlogBuf)

\* C13: with ReadOnly set, opening the log manager (replay included) and the
\* key registry creates, deletes and writes no file of the value directory,
\* and getDataKey neither creates nor persists a data key.
C13_ReadOnlyTouchesNothing ==
  [][/\ (lpc \in {"filter", "replay", "finish"} /\ opt.ReadOnly) =>
          (walDisk' = walDisk /\ vlogDisk' = vlogDisk)
     /\ \A key \in StorageKeys :
          OpenKeyRegistry(TRUE, key) => (UNCHANGED fsVars /\ rpc' = "idle")
     /\ (kr # NoKr /\ kr.readOnly /\ (gpc' # gpc \/ gret' # gret) /\ kr' # NoKr) =>
          (UNCHANGED fsVars /\ kr'.dataKeys = kr.dataKeys)]_vars

\* the open in progress started on a directory with no .log and no .vlog file
openedEmpty ==
  /\ lpc \in {"filter", "replay", "finish"}
  /\ DOMAIN diskAtOpen.wal = {}
  /\ DOMAIN diskAtOpen.vlog = {}

\* the manager and the directory right after a first open
freshManager(m, wd, vd) ==
  /\ DOMAIN wd = {1}
  /\ DOMAIN vd = {1}
  /\ wd[1] = LogFile(<<>>)
  /\ vd[1] = LogFile(<<>>)
  /\ fileSize(wd[1]) = vlogHeaderSize
  /\ fileSize(vd[1]) = vlogHeaderSize
  /\ m.maxWalID = 1
  /\ m.maxVlogID = 1
  /\ m.wal = 1
  /\ m.vlog = 1
  /\ m.walOffset = vlogHeaderSize
  /\ m.vlogOffset = vlogHeaderSize
  /\ m.vlogFileMap = {1}

\* C15: openLogManager on a directory with no .log and no .vlog file succeeds,
\* creates exactly WAL 1 and vlog 1, each bootstrapped with offset 20, leaves
\* maxWalID = maxVlogID = 1, sets both as the current files, registers vlog 1 in
\* vlogFileMap, and never invokes the replay callback.
C15_FreshOpenCreatesFirstFiles ==
  [][openedEmpty =>
       /\ OpenFilter => (lpc' = "replay" /\ walDisk' = EmptyDir /\ vlogDisk' = EmptyDir)
       /\ OpenReplay => (lpc' = "finish" /\ replayed' = <<>> /\ walDisk' = EmptyDir
                           /\ vlogDisk' = EmptyDir)
       /\ OpenFinish => /\ lpc' = "ready"
                        /\ openResult' = "nil"
                        /\ replayed' = <<>>
                        /\ freshManager(manager', walDisk', vlogDisk')]_vars

\* a first open has returned
C15_Witness ==
  /\ lpc = "ready"
  /\ openResult = "nil"
  /\ diskAtOpen.wal = EmptyDir
  /\ diskAtOpen.vlog = EmptyDir
  /\ replayed = <<>>
  /\ freshManager(manager, walDisk, vlogDisk)

\* C16: after a successful openLogManager that is not read-only the current
\* vlog is set, is file maxVlogID and is the one registered in vlogFileMap, and
\* the current WAL is set.
C16_CurrentFilesSetAfterOpen ==
  (lpc = "ready" /\ openResult = "nil" /\ ~opt.ReadOnly) =>
    /\ manager.wal # 0
    /\ manager.vlog # 0
    /\ manager.vlog = manager.maxVlogID
    /\ manager.vlog \in manager.vlogFileMap

\* C17: a non-read-only open of a directory that has log files creates WAL
\* maxWalID + 1 if maxWalID equals the WAL head and otherwise reopens WAL
\* maxWalID for append; the reopened file still exists and the open succeeds,
\* for every WAL head including 0.
C17_NewWalOnlyAtHead ==
  [][(OpenFinish /\ ~opt.ReadOnly /\ manager.maxWalID # 0) =>
       IF openResult' # "nil"
         THEN FALSE
         ELSE IF manager.maxWalID = oarg.walhead
           THEN /\ manager'.wal = manager.maxWalID + 1
                /\ manager'.maxWalID = manager.maxWalID + 1
                /\ walDisk' = createlogFile(walDisk, manager.maxWalID + 1)
           ELSE /\ manager.maxWalID \in DOMAIN walDisk
                /\ manager'.wal = manager.maxWalID
                /\ manager'.maxWalID = manager.maxWalID
                /\ walDisk' = walDisk]_vars

\* the record e lies in vlog file vp.Fid at vp.Offset
locatedAt(vd, vp, e) ==
  /\ vp.Fid \in DOMAIN vd
  /\ \E i \in 1..Len(vd[vp.Fid].recs) :
       /\ offsetOf(vd[vp.Fid].recs, i) = vp.Offset
       /\ vd[vp.Fid].recs[i] = e

\* C18: in every round of the replay loop the batch of the vlog stream is read
\* from the vlog iterator and the batch of the WAL stream from the WAL
\* iterator, and every entry handed to the callback with a non-empty pointer
\* is a record located in vlog file vp.Fid at vp.Offset.  (A batch once read
\* for the vlog stream from the WAL iterator is never replaced by one read from
\* a vlog iterator, so the batches of the last round tell.)
C18_LockstepStreams ==
  [][OpenReplay =>
       LET r == replay(replayer.walIDs, replayer.vlogIDs, oarg.vhead, opt.ReadOnly,
                       walDisk, vlogDisk)
       IN /\ r.st # NoReplayState => (r.st.wB.fam = "wal" /\ r.st.vB.fam = "vlog")
          /\ \A i \in 1..Len(replayed') :
               replayed'[i].vp # emptyPtr =>
                 locatedAt(vlogDisk', replayed'[i].vp, replayed'[i].e)]_vars

\* recs consists of complete batches: entries of one timestamp, each run closed
\* by the end-marker of that timestamp
wholeBatches(recs) ==
  /\ Len(recs) > 0 => recs[Len(recs)].meta = "fin"
  /\ \A i \in 1..Len(recs) :
       recs[i].meta = "txn" =>
         \E j \in (i + 1)..Len(recs) :
           /\ recs[j].meta = "fin"
           /\ recs[j].ts = recs[i].ts
           /\ \A k \in (i + 1)..(j - 1) : recs[k].meta = "txn" /\ recs[k].ts = recs[i].ts

\* the records of the files ids of directory d, one file after the other
RECURSIVE recordsOf(_, _)
recordsOf(d, ids) ==
  IF ids = <<>> THEN <<>> ELSE d[Head(ids)].recs \o recordsOf(d, Tail(ids))

\* the timestamps of the end-markers of recs, in order
RECURSIVE finSeq(_)
finSeq(recs) ==
  IF recs = <<>> THEN <<>>
  ELSE IF Head(recs).meta = "fin" THEN <<Head(recs).ts>> \o finSeq(Tail(recs))
  ELSE finSeq(Tail(recs))

\* the entries of recs that are not end-markers
txnCount(recs) == Cardinality({i \in 1..Len(recs) : recs[i].meta = "txn"})

\* the files the replayer is about to read hold complete batches, the same
\* batches in the WAL files as in the vlog files, read from their start
cleanLogs ==
  /\ replayer.walIDs # <<>>
  /\ replayer.vlogIDs # <<>>
  /\ oarg.vhead = emptyPtr
  /\ \A i \in 1..Len(replayer.walIDs) : wholeBatches(walDisk[replayer.walIDs[i]].recs)
  /\ \A i \in 1..Len(replayer.vlogIDs) : wholeBatches(vlogDisk[replayer.vlogIDs[i]].recs)
  /\ finSeq(recordsOf(walDisk, replayer.walIDs))
       = finSeq(recordsOf(vlogDisk, replayer.vlogIDs))
  /\ finSeq(recordsOf(walDisk, replayer.walIDs)) # <<>>

\* C19: when every WAL and vlog file to replay holds only complete, matching
\* batches, replay advances at each clean end of file to the next id of the
\* same family, and after the last file it returns success: no index past the
\* end of the id list, no truncation flagged, every batch replayed.
C19_CleanReplayTerminates ==
  [][(OpenReplay /\ cleanLogs) =>
       /\ lpc' = "finish"
       /\ openResult' \notin {"err", "panic"}
       /\ walDisk' = walDisk
       /\ vlogDisk' = vlogDisk
       /\ Len(replayed') = txnCount(recordsOf(walDisk, replayer.walIDs))
                             + txnCount(recordsOf(vlogDisk, replayer.vlogIDs))]_vars

\* C20: iterateEntries returns a batch only if every entry of the batch has
\* the commit timestamp of the batch's first entry and the end-marker carries
\* that timestamp too, for every timestamp from 0 on and with entries of
\* neither bit in the file; on an inconsistency it returns errTruncate with an
\* empty batch and leaves validOffset as it was.
C20_BatchOfOneTimestamp ==
  [][iterateEntriesCall =>
       LET b == itBatches'[Len(itBatches')]
           last == CHOOSE i \in 0..Len(itFile.recs) :
                     offsetOf(itFile.recs, i + 1) = iterator'.recordOffset
       IN /\ b.err = "nil" =>
               /\ itFile.recs[last].meta = "fin"
               /\ itFile.recs[last].ts = b.ts
               /\ \A i \in 1..Len(b.entries) :
                    /\ b.entries[i].e.ts = b.entries[1].e.ts
                    /\ b.entries[i].e.ts = itFile.recs[last].ts
          /\ b.err = "errTruncate" =>
               /\ b.entries = <<>>
               /\ iterator'.validOffset = iterator.validOffset]_vars

\* the position after the last end-marker the iterator decoded, the start
\* offset while it has decoded none
validEnd(it, start) == IF it.validOffset = 0 THEN start ELSE it.validOffset

\* C21: at the end of a stream replay flags truncation if and only if the
\* file is longer than valid_offset, the end of the last decoded end-marker or
\* the start offset while no batch was decoded; so a WAL holding only its
\* header, or only complete batches, is not flagged.  (Stated for the replay of
\* one WAL file whose last round ended at the WAL's end of file.)
C21_TruncateIffBytesPastValid ==
  [][OpenReplay =>
       LET r == replay(replayer.walIDs, replayer.vlogIDs, oarg.vhead, opt.ReadOnly,
                       walDisk, vlogDisk)
       IN (/\ r.st # NoReplayState
           /\ Len(replayer.walIDs) = 1
           /\ r.st.wB.err = "EOF"
           /\ r.st.vB.err # "errTruncate") =>
            ((r.res = "panicTruncate")
               <=> (fileSize(r.wd[r.st.walFid]) > validEnd(r.st.wIt, vlogHeaderSize)))]_vars

\* C22: a Read that succeeds on the active vlog returns only bytes inside
\* [20, file_offset): a pointer that starts below file_offset and ends past it
\* is rejected.
C22_ReadWithinFileOffset ==
  [][\A decryptOk \in BOOLEAN :
       (ReadReturn(decryptOk) /\ readResult'.err = "nil"
          /\ readResult'.vp.Fid = manager.maxVlogID) =>
         /\ readResult'.vp.Offset >= vlogHeaderSize
         /\ readResult'.vp.Offset + readResult'.vp.Len <= manager.vlogOffset]_vars

\* C25: the assertion of openLogManager, maxVlogID == 0 whenever maxWalID == 0,
\* holds when it is reached, for every directory that opens, writes and stops
\* of the process at any step can leave, also a stop of an earlier open between
\* its deletion of WAL files and its creation of the new WAL.
C25_AssertNoVlogWithoutWal ==
  (lpc = "finish" /\ manager.maxWalID = 0) => manager.maxVlogID = 0

====
